---- MODULE Spec2Model ----
(***************************************************************************)
(* ydb-dataclass: the statement builder (queries.py), the field binder and *)
(* the record transformer (decorator.py) over the type namespace           *)
(* (types.py).                                                             *)
(*                                                                         *)
(* Statement text is modelled as TLA+ strings, built with the same         *)
(* concatenations and joins as the f-strings of the source.  Python values *)
(* are tagged records [kind, v, s, items] (v an int, s a str, items the    *)
(* elements of a container); a dict is the sequence of its (key, value)   *)
(* pairs in insertion order.                                               *)
(***************************************************************************)
EXTENDS Integers, Sequences, FiniteSets, TLC

VARIABLES
    call,          \* the statement-builder call made last: function and arguments
    ret,           \* what that call returned
    shape,         \* the class handed to ydb_dataclass: its declaration
    status,        \* "declared" | "bound" | "TypeError": outcome of wrap(cls)
    _ydb_fields,   \* cls._ydb_fields
    _ydb_schema,   \* cls._ydb_schema
    dc_fields,     \* the fields of the dataclass generated at decorator.py:124
    mcall,         \* the classmethod call made last (from_dict / from_ydb_row)
    mret,          \* its outcome
    pc,            \* per thread: position inside get_ydb_schema
    seen,          \* per thread: the value of cls._ydb_schema read at line 134
    local,         \* per thread: the mapping computed at lines 135-138
    returned       \* per thread: what get_ydb_schema returned

vars == <<call, ret, shape, status, _ydb_fields, _ydb_schema, dc_fields,
          mcall, mret, pc, seen, local, returned>>

----------------------------------------------------------------------------
(* Bounds                                                                  *)

MaxFields == 2      \* fields in a field set / attributes in a declaration
MaxConds == 2       \* conditions in a where mapping
MaxList == 2        \* elements in a list or tuple value
NThreads == 2       \* threads calling get_ydb_schema concurrently

----------------------------------------------------------------------------
(* Python values                                                           *)

NoneV == [kind |-> "None", v |-> 0, s |-> "", items |-> <<>>]
Scalar(n) == [kind |-> "scalar", v |-> n, s |-> "", items |-> <<>>]
ListV(xs) == [kind |-> "list", v |-> 0, s |-> "", items |-> xs]
TupleV(xs) == [kind |-> "tuple", v |-> 0, s |-> "", items |-> xs]
DictV(xs) == [kind |-> "dict", v |-> 0, s |-> "", items |-> xs]
StrV(t) == [kind |-> "str", v |-> 0, s |-> t, items |-> <<>>]

\* bool(x) for the values tested with 'if x:': None and empty containers are false
Truthy(x) ==
    CASE x.kind = "None" -> FALSE
      [] x.kind \in {"list", "tuple", "dict"} -> Len(x.items) > 0
      [] x.kind = "str" -> Len(x.s) > 0
      [] OTHER -> x.v # 0

\* all sequences without repetition over S, of length at most n
Range(s) == {s[i] : i \in DOMAIN s}

RECURSIVE DistinctSeqs(_, _)
DistinctSeqs(S, n) ==
    IF n = 0 THEN {<<>>}
    ELSE LET shorter == DistinctSeqs(S, n - 1)
         IN shorter \cup UNION {{Append(s, x) : x \in S \ Range(s)} : s \in shorter}

----------------------------------------------------------------------------
(* Text                                                                    *)

\* str(i) for a non-negative int
RECURSIVE IntToStr(_)
IntToStr(n) ==
    IF n < 10 THEN SubSeq("0123456789", n + 1, n + 1)
    ELSE IntToStr(n \div 10) \o SubSeq("0123456789", (n % 10) + 1, (n % 10) + 1)

\* sep.join(parts)
RECURSIVE Join(_, _)
Join(parts, sep) ==
    IF Len(parts) = 0 THEN ""
    ELSE IF Len(parts) = 1 THEN parts[1]
    ELSE parts[1] \o sep \o Join(Tail(parts), sep)

StartsAt(s, sub, i) ==
    /\ i + Len(sub) - 1 <= Len(s)
    /\ SubSeq(s, i, i + Len(sub) - 1) = sub

\* s.replace(old, new): every non-overlapping occurrence, left to right
RECURSIVE ReplaceFrom(_, _, _, _)
ReplaceFrom(s, old, new, i) ==
    IF i > Len(s) THEN ""
    ELSE IF StartsAt(s, old, i) THEN new \o ReplaceFrom(s, old, new, i + Len(old))
    ELSE SubSeq(s, i, i) \o ReplaceFrom(s, old, new, i + 1)

Replace(s, old, new) == ReplaceFrom(s, old, new, 1)

\* The identifier quote of the statements (the grave accent, U+0060, of the
\* f-strings) cannot be written in a TLA+ string: it is written as an apostrophe,
\* a character no statement otherwise contains.
BQ == "'"

----------------------------------------------------------------------------
(* Dicts: sequences of [key, value] pairs in insertion order               *)

Keys(d) == [i \in DOMAIN d |-> d[i].key]

HasKey(d, k) == \E i \in DOMAIN d : d[i].key = k

Get(d, k) == d[CHOOSE i \in DOMAIN d : d[i].key = k].value

\* d[k] = v: an existing key keeps its position, a new key goes last
DictSet(d, k, v) ==
    IF HasKey(d, k)
    THEN [i \in DOMAIN d |-> IF d[i].key = k THEN [key |-> k, value |-> v] ELSE d[i]]
    ELSE Append(d, [key |-> k, value |-> v])

\* the column names of a field set, list(ydb_fields.keys())
FieldNames(ydb_fields) == [i \in DOMAIN ydb_fields |-> ydb_fields[i].name]

----------------------------------------------------------------------------
(* queries.py                                                              *)

\* [f"${field}_{i}" for i in range(len(value))]
IndexedPlaceholders(field, n) == [i \in 1..n |-> "$" \o field \o "_" \o IntToStr(i - 1)]

\* the loop body with the tuple test of line 261 dropped
WhereClauseOf_ListOnly(field, value) ==
    IF value.kind = "None" THEN field \o " IS NULL"
    ELSE IF value.kind = "list"
    THEN field \o " IN (" \o Join(IndexedPlaceholders(field, Len(value.items)), ", ") \o ")"
    ELSE field \o " = $" \o field

\* the body of the loop of generate_where_clause, for one condition
WhereClauseOf(field, value) ==
    IF value.kind = "None" THEN field \o " IS NULL"
    ELSE IF value.kind = "list" \/ value.kind = "tuple"
    THEN field \o " IN (" \o Join(IndexedPlaceholders(field, Len(value.items)), ", ") \o ")"
    ELSE field \o " = $" \o field

generate_where_clause(conditions) ==
    Join([i \in DOMAIN conditions |->
              WhereClauseOf(conditions[i].key, conditions[i].value)], " AND ")

\* [f"${col}" for col in columns]
Placeholders(columns) == [i \in DOMAIN columns |-> "$" \o columns[i]]

upsert_query(table_name, ydb_fields) ==
    LET columns == FieldNames(ydb_fields)
    IN "UPSERT INTO " \o BQ \o table_name \o BQ \o " (" \o Join(columns, ", ")
           \o ") VALUES (" \o Join(Placeholders(columns), ", ") \o ")"

insert_query(table_name, ydb_fields, on_conflict) ==
    LET columns == FieldNames(ydb_fields)
        columns_str == Join(columns, ", ")
        placeholders_str == Join(Placeholders(columns), ", ")
        query == "INSERT INTO " \o BQ \o table_name \o BQ \o " (" \o columns_str
                     \o ") VALUES (" \o placeholders_str \o ")"
    IN IF on_conflict.kind = "str" /\ on_conflict.s = "REPLACE"
       THEN Replace(query, "INSERT", "REPLACE")
       ELSE IF on_conflict.kind = "str" /\ on_conflict.s = "UPDATE"
       THEN "UPSERT INTO " \o BQ \o table_name \o BQ \o " (" \o columns_str
                \o ") VALUES (" \o placeholders_str \o ")"
       ELSE query

\* select_query with the OFFSET test of line 176 moved out of the LIMIT block
select_query_OffsetAlone(table_name, ydb_fields, where, order_by, limit, offset, columns) ==
    LET columns_str ==
            IF Truthy(columns) THEN Join(columns.items, ", ")
            ELSE IF Truthy(ydb_fields) THEN Join(FieldNames(ydb_fields.items), ", ")
            ELSE "*"
        q0 == "SELECT " \o columns_str \o " FROM " \o BQ \o table_name \o BQ
        q1 == IF Truthy(where)
              THEN q0 \o " WHERE " \o generate_where_clause(where.items)
              ELSE q0
        q2 == IF Truthy(order_by)
              THEN q1 \o " ORDER BY " \o Join(order_by.items, ", ")
              ELSE q1
        q3 == IF limit.kind # "None" THEN q2 \o " LIMIT " \o IntToStr(limit.v) ELSE q2
    IN IF offset.kind # "None" THEN q3 \o " OFFSET " \o IntToStr(offset.v) ELSE q3

select_query(table_name, ydb_fields, where, order_by, limit, offset, columns) ==
    LET columns_str ==
            IF Truthy(columns) THEN Join(columns.items, ", ")
            ELSE IF Truthy(ydb_fields) THEN Join(FieldNames(ydb_fields.items), ", ")
            ELSE "*"
        q0 == "SELECT " \o columns_str \o " FROM " \o BQ \o table_name \o BQ
        q1 == IF Truthy(where)
              THEN q0 \o " WHERE " \o generate_where_clause(where.items)
              ELSE q0
        q2 == IF Truthy(order_by)
              THEN q1 \o " ORDER BY " \o Join(order_by.items, ", ")
              ELSE q1
    IN IF limit.kind # "None"
       THEN IF offset.kind # "None"
            THEN q2 \o " LIMIT " \o IntToStr(limit.v) \o " OFFSET " \o IntToStr(offset.v)
            ELSE q2 \o " LIMIT " \o IntToStr(limit.v)
       ELSE q2

\* [f for f in update_fields if f in all_fields]
RECURSIVE FilterIn(_, _)
FilterIn(names, allowed) ==
    IF Len(names) = 0 THEN <<>>
    ELSE IF Head(names) \in allowed
    THEN <<Head(names)>> \o FilterIn(Tail(names), allowed)
    ELSE FilterIn(Tail(names), allowed)

\* lines 201-207 of update_query: the fields assigned in the SET clause
SetFields(ydb_fields, update_fields) ==
    LET all_fields == FieldNames(ydb_fields)
    IN IF Truthy(update_fields)
       THEN FilterIn(update_fields.items, Range(all_fields))
       ELSE all_fields

update_query(table_name, ydb_fields, where, update_fields) ==
    LET set_fields == SetFields(ydb_fields, update_fields)
        set_clauses == [i \in DOMAIN set_fields |->
                            set_fields[i] \o " = $" \o set_fields[i]]
        query == "UPDATE " \o BQ \o table_name \o BQ \o " SET " \o Join(set_clauses, ", ")
    IN IF Truthy(where)
       THEN query \o " WHERE " \o generate_where_clause(where.items)
       ELSE query

delete_query(table_name, where) ==
    LET query == "DELETE FROM " \o BQ \o table_name \o BQ
    IN IF Truthy(where)
       THEN query \o " WHERE " \o generate_where_clause(where.items)
       ELSE query

\* for i, v in enumerate(value): params[f"{key}_{i}"] = v
RECURSIVE SetIndexed(_, _, _, _)
SetIndexed(params, key, items, i) ==
    IF i > Len(items) THEN params
    ELSE SetIndexed(DictSet(params, key \o "_" \o IntToStr(i - 1), items[i]),
                    key, items, i + 1)

\* lines 298-304 of prepare_params: the where conditions, one after the other
RECURSIVE AddWhereParams(_, _)
AddWhereParams(params, conds) ==
    IF Len(conds) = 0 THEN params
    ELSE LET key == Head(conds).key
             value == Head(conds).value
         IN AddWhereParams(
                IF value.kind = "list" \/ value.kind = "tuple"
                THEN SetIndexed(params, key, value.items, 1)
                ELSE DictSet(params, key, value),
                Tail(conds))

\* for key, value in data.items(): params[key] = value
RECURSIVE AddDataParams(_, _)
AddDataParams(params, items) ==
    IF Len(items) = 0 THEN params
    ELSE AddDataParams(DictSet(params, Head(items).key, Head(items).value), Tail(items))

\* for i, item in enumerate(data): for key, value in item.items(): params[f"{key}_{i}"] = value
RECURSIVE AddRowParams(_, _, _)
AddRowParams(params, item, i) ==
    IF Len(item) = 0 THEN params
    ELSE AddRowParams(
             DictSet(params, Head(item).key \o "_" \o IntToStr(i), Head(item).value),
             Tail(item), i)

RECURSIVE AddListParams(_, _, _)
AddListParams(params, rows, i) ==
    IF i > Len(rows) THEN params
    ELSE AddListParams(AddRowParams(params, rows[i].items, i - 1), rows, i + 1)

prepare_params(data, where) ==
    LET p0 == IF data.kind = "dict" THEN AddDataParams(<<>>, data.items)
              ELSE IF data.kind = "list" THEN AddListParams(<<>>, data.items, 1)
              ELSE <<>>
    IN IF Truthy(where) THEN AddWhereParams(p0, where.items) ELSE p0

----------------------------------------------------------------------------
(* types.py: the type namespace                                            *)

\* The nested classes of YDBMeta and what each one's __init__ passes to
\* YDBType.__init__: (python_type, ydb_type).
BaseTypeNames == {"int64", "uint64", "utf8", "string", "double", "bool",
                  "timestamp", "json", "date", "datetime", "interval"}

PythonTypeOf(cls) ==
    CASE cls \in {"int64", "uint64", "timestamp", "date", "datetime", "interval"} -> "int"
      [] cls \in {"utf8", "json"} -> "str"
      [] cls = "string" -> "bytes"
      [] cls = "double" -> "float"
      [] cls = "bool" -> "bool"

StoreTypeOf(cls) ==
    CASE cls = "int64" -> "Int64"
      [] cls = "uint64" -> "Uint64"
      [] cls = "utf8" -> "Utf8"
      [] cls = "string" -> "String"
      [] cls = "double" -> "Double"
      [] cls = "bool" -> "Bool"
      [] cls = "timestamp" -> "Timestamp"
      [] cls = "json" -> "Json"
      [] cls = "date" -> "Date"
      [] cls = "datetime" -> "Datetime"
      [] cls = "interval" -> "Interval"

\* an instance of one of the nested classes, YDBMeta.<cls>()
TypeInstance(cls) ==
    [cls |-> cls, python_type |-> PythonTypeOf(cls), ydb_type |-> StoreTypeOf(cls)]

\* YDBMeta.Optional(inner_type)
OptionalInstance(inner_type) ==
    [cls |-> "Optional", python_type |-> inner_type.python_type,
     ydb_type |-> "Optional<" \o inner_type.ydb_type \o ">", inner_type |-> inner_type]

----------------------------------------------------------------------------
(* decorator.py: YDBFieldInfo                                              *)

\* the default of YDBFieldInfo.__init__'s parameter default
Ellipsis == [kind |-> "Ellipsis", v |-> 0, s |-> "", items |-> <<>>]

\* YDBFieldInfo(name, ydb_type, default)
YDBFieldInfo(name, ydb_type, default) ==
    [name |-> name, ydb_type |-> ydb_type, default |-> default,
     python_type |-> ydb_type.python_type]

----------------------------------------------------------------------------
(* Inputs of the statement builder                                         *)

TableNames == {"t", "INSERTS"}
ColumnNames == {"a", "b", "INSERTED"}
WhereNames == {"a", "a_0"}

FirstN(n) == [i \in 1..n |-> i]

\* the field sets handed to the builder: Dict[str, YDBFieldInfo] in column order
FieldSets ==
    {[i \in DOMAIN names |-> YDBFieldInfo(names[i], TypeInstance("int64"), Ellipsis)] :
        names \in DistinctSeqs(ColumnNames, MaxFields)}

CondValues ==
    {NoneV, Scalar(0), Scalar(7)}
        \cup {ListV(FirstN(n)) : n \in 0..MaxList}
        \cup {TupleV(FirstN(n)) : n \in 0..MaxList}

\* where mappings: distinct keys, in insertion order
RECURSIVE CondsOver(_)
CondsOver(names) ==
    IF Len(names) = 0 THEN {<<>>}
    ELSE {<<[key |-> Head(names), value |-> v]>> \o rest :
              v \in CondValues, rest \in CondsOver(Tail(names))}

Conditions == UNION {CondsOver(names) : names \in DistinctSeqs(WhereNames, MaxConds)}

WhereArgs == {NoneV} \cup {DictV(c) : c \in Conditions}

\* the where arguments tried with select/update/delete: at most one condition, on a
ShortWhereArgs ==
    {w \in WhereArgs : Len(w.items) <= 1 /\ \A i \in DOMAIN w.items : w.items[i].key = "a"}

OrderLists == {NoneV, ListV(<<>>), ListV(<<"a">>), ListV(<<"b", "a">>)}

\* the field-set arguments tried with select: none, an empty one, a two-column one
SelectFieldArgs ==
    {NoneV, DictV(<<>>),
     DictV(<<YDBFieldInfo("a", TypeInstance("int64"), Ellipsis),
             YDBFieldInfo("b", TypeInstance("utf8"), Ellipsis)>>)}

NameLists == {NoneV, ListV(<<>>), ListV(<<"a">>), ListV(<<"b", "a">>),
              ListV(<<"zz">>), ListV(<<"a", "zz">>)}

Limits == {NoneV, Scalar(0), Scalar(10)}
Offsets == {NoneV, Scalar(0), Scalar(5)}
ConflictPolicies == {NoneV, StrV("REPLACE"), StrV("UPDATE"), StrV("NOTHING")}

DataValues == {Scalar(7), Scalar(8)}

RECURSIVE DataOver(_)
DataOver(names) ==
    IF Len(names) = 0 THEN {<<>>}
    ELSE {<<[key |-> Head(names), value |-> v]>> \o rest :
              v \in DataValues, rest \in DataOver(Tail(names))}

DataDicts == UNION {DataOver(names) : names \in DistinctSeqs(WhereNames, MaxFields)}

DataArgs ==
    {DictV(d) : d \in DataDicts}
        \cup {ListV(<<>>), ListV(<<DictV(<<[key |-> "a", value |-> Scalar(7)]>>)>>),
              ListV(<<DictV(<<[key |-> "a", value |-> Scalar(7)]>>),
                      DictV(<<[key |-> "a", value |-> Scalar(8)]>>)>>)}

NoCall ==
    [fn |-> "none", table_name |-> "", ydb_fields |-> NoneV, where |-> NoneV,
     order_by |-> NoneV, limit |-> NoneV, offset |-> NoneV, columns |-> NoneV,
     on_conflict |-> NoneV, update_fields |-> NoneV, data |-> NoneV]

classVars == <<shape, status, _ydb_fields, _ydb_schema, dc_fields, mcall, mret,
               pc, seen, local, returned>>

----------------------------------------------------------------------------
(* The statement builder's operations: a call is drawn with its arguments, *)
(* then the function named is applied to them.                             *)

\* the result slot of a call that has not returned yet
Pending == [kind |-> "pending", v |-> 0, s |-> "", items |-> <<>>]

Calls ==
    {[NoCall EXCEPT !.fn = "generate_where_clause", !.where = DictV(c)] :
        c \in Conditions}
    \cup {[NoCall EXCEPT !.fn = "insert_query", !.table_name = t,
                         !.ydb_fields = DictV(f), !.on_conflict = oc] :
             t \in TableNames, f \in FieldSets, oc \in ConflictPolicies}
    \cup {[NoCall EXCEPT !.fn = "upsert_query", !.table_name = t,
                         !.ydb_fields = DictV(f)] :
             t \in TableNames, f \in FieldSets}
    \cup {[NoCall EXCEPT !.fn = "select_query", !.table_name = "t", !.ydb_fields = f,
                         !.where = w, !.order_by = ob, !.limit = l, !.offset = o,
                         !.columns = c] :
             f \in SelectFieldArgs, w \in ShortWhereArgs, ob \in OrderLists, l \in Limits, o \in Offsets,
             c \in {NoneV, ListV(<<>>), ListV(<<"b">>)}}
    \cup {[NoCall EXCEPT !.fn = "update_query", !.table_name = "t",
                         !.ydb_fields = DictV(f), !.where = w, !.update_fields = uf] :
             f \in FieldSets, w \in ShortWhereArgs, uf \in NameLists}
    \cup {[NoCall EXCEPT !.fn = "delete_query", !.table_name = t, !.where = w] :
             t \in TableNames, w \in ShortWhereArgs \ {NoneV}}
    \cup {[NoCall EXCEPT !.fn = "prepare_params", !.data = d, !.where = w] :
             d \in DataArgs, w \in WhereArgs}

GenerateWhereClause ==
    /\ call.fn = "generate_where_clause" /\ ret = Pending
    /\ ret' = StrV(generate_where_clause(call.where.items))
    /\ UNCHANGED <<call, classVars>>

InsertQuery ==
    /\ call.fn = "insert_query" /\ ret = Pending
    /\ ret' = StrV(insert_query(call.table_name, call.ydb_fields.items, call.on_conflict))
    /\ UNCHANGED <<call, classVars>>

UpsertQuery ==
    /\ call.fn = "upsert_query" /\ ret = Pending
    /\ ret' = StrV(upsert_query(call.table_name, call.ydb_fields.items))
    /\ UNCHANGED <<call, classVars>>

SelectQuery ==
    /\ call.fn = "select_query" /\ ret = Pending
    /\ ret' = StrV(select_query(call.table_name, call.ydb_fields, call.where,
                                call.order_by, call.limit, call.offset, call.columns))
    /\ UNCHANGED <<call, classVars>>

UpdateQuery ==
    /\ call.fn = "update_query" /\ ret = Pending
    /\ ret' = StrV(update_query(call.table_name, call.ydb_fields.items, call.where,
                                call.update_fields))
    /\ UNCHANGED <<call, classVars>>

DeleteQuery ==
    /\ call.fn = "delete_query" /\ ret = Pending
    /\ ret' = StrV(delete_query(call.table_name, call.where))
    /\ UNCHANGED <<call, classVars>>

PrepareParams ==
    /\ call.fn = "prepare_params" /\ ret = Pending
    /\ ret' = DictV(prepare_params(call.data, call.where))
    /\ UNCHANGED <<call, classVars>>

\* no row, and no classmethod called
NoRow == [access |-> "bare", items |-> <<>>]

NoMethodCall == [fn |-> "none", data |-> <<>>, row |-> NoRow]

\* no class is being bound while the statement builder is exercised
ClassIdle ==
    /\ shape = <<>>
    /\ status = "declared"
    /\ _ydb_fields = <<>>
    /\ _ydb_schema = NoneV
    /\ dc_fields = <<>>
    /\ mcall = NoMethodCall
    /\ mret = Pending
    /\ pc = <<>>
    /\ seen = <<>>
    /\ local = <<>>
    /\ returned = <<>>

Init ==
    /\ call \in Calls
    /\ ret = Pending
    /\ ClassIdle

Next ==
    \/ GenerateWhereClause
    \/ InsertQuery
    \/ UpsertQuery
    \/ SelectQuery
    \/ UpdateQuery
    \/ DeleteQuery
    \/ PrepareParams

Spec == Init /\ [][Next]_vars

----------------------------------------------------------------------------
(* decorator.py: the registry scan of _is_ydb_type and _extract_ydb_type   *)

\* A Python object as the scan sees it: its identity, whether it is a class
\* (isinstance(attr, type)), whether it has an attribute python_type, and, for a
\* typing generic alias, its origin and arguments.
PyObject(id, is_type, has_python_type) ==
    [id |-> id, is_type |-> is_type, has_python_type |-> has_python_type,
     origin |-> "None", args |-> <<>>]

NoneType == PyObject("NoneType", TRUE, FALSE)

\* typing.Optional[inner]: get_origin is Union, get_args is (inner, NoneType)
OptionalAlias(inner) ==
    [id |-> "Optional[" \o inner.id \o "]", is_type |-> FALSE,
     has_python_type |-> FALSE, origin |-> "Union", args |-> <<inner, NoneType>>]

\* The class YDBMeta.<cls>, which YDB.<cls> evaluates to.  python_type is assigned
\* to instances by YDBType.__init__ (types.py:12); the class has no such attribute.
TypeClass(cls) == PyObject("YDBMeta." \o cls, TRUE, FALSE)

\* a class that is not part of the namespace, such as int
PlainClass(name) == PyObject(name, TRUE, FALSE)

\* dir(YDB): the names in the namespaces of YDB (types.py:117-128: optional,
\* decimal) and of its base object.  The nested classes are attributes of the
\* metaclass YDBMeta, and dir() of a class does not list its metaclass's attributes.
DirYDB ==
    {"optional", "decimal", "__class__", "__doc__", "__module__", "__dict__",
     "__weakref__", "__init__", "__repr__", "__eq__", "__hash__"}

\* getattr(YDB, attr_name) for the names dir(YDB) lists
GetAttrYDB(attr_name) ==
    CASE attr_name = "__class__" -> PyObject("YDBMeta", TRUE, FALSE)
      [] attr_name \in {"optional", "decimal"} ->
            PyObject("YDB." \o attr_name, FALSE, FALSE)
      [] OTHER -> PyObject("object." \o attr_name, FALSE, FALSE)

\* the attrs that pass `isinstance(attr, type) and hasattr(attr, 'python_type')`
RegistryScan ==
    {attr \in {GetAttrYDB(attr_name) : attr_name \in DirYDB} :
        attr.is_type /\ attr.has_python_type}

_is_ydb_type(t) ==
    \/ \E attr \in RegistryScan : t.id = attr.id
    \/ /\ t.origin # "None"
       /\ Len(t.args) = 2
       /\ t.args[2] = NoneType
       /\ \E attr \in RegistryScan : t.args[1].id = attr.id

\* raise TypeError(...)
TypeErrorV == [kind |-> "TypeError", v |-> 0, s |-> "", items |-> <<>>]

_extract_ydb_type(t) ==
    IF \E attr \in RegistryScan : t.id = attr.id
    THEN CHOOSE attr \in RegistryScan : t.id = attr.id
    ELSE IF /\ t.origin # "None"
            /\ Len(t.args) = 2
            /\ t.args[2] = NoneType
            /\ \E attr \in RegistryScan : t.args[1].id = attr.id
    THEN OptionalInstance(CHOOSE attr \in RegistryScan : t.args[1].id = attr.id)
    ELSE TypeErrorV

----------------------------------------------------------------------------
(* decorator.py: ydb_dataclass.wrap                                        *)

\* A class handed to the decorator: its annotated attributes in declaration order,
\* each with its annotation and its class-level default if the body assigns one, and
\* what dataclasses.fields(cls) finds on it:
\*   "none"   cls has no __dataclass_fields__ (a plain class),
\*   "empty"  cls is or inherits a dataclass without fields,
\*   "fields" cls is or inherits a dataclass with at least one field.
Attribute(name, annotation, has_default, default) ==
    [name |-> name, annotation |-> annotation, has_default |-> has_default,
     default |-> default]

\* line 113: `for name, field in fields(cls)`.  fields() raises TypeError on a class
\* that is no dataclass; unpacking a Field into (name, field) raises TypeError.
FieldsLoopRaises(cls) == cls.dataclass # "empty"

\* the attributes kept by the loop of lines 106-110
AcceptedAttrs(cls) == SelectSeq(cls.attrs, LAMBDA a : _is_ydb_type(a.annotation))

\* lines 106-110: ydb_fields
BindFields(cls) ==
    LET kept == AcceptedAttrs(cls)
    IN [i \in DOMAIN kept |->
            YDBFieldInfo(kept[i].name, _extract_ydb_type(kept[i].annotation), Ellipsis)]

\* lines 118-124: the dataclass generated from the rewritten annotations; a field's
\* default is the class attribute of its name, if the class body assigns one
DataclassFields(cls) ==
    LET kept == AcceptedAttrs(cls)
    IN [i \in DOMAIN kept |->
            [name |-> kept[i].name, has_default |-> kept[i].has_default,
             default |-> kept[i].default]]

\* dataclass() raises TypeError for a field without default after one with a default
DataclassRaises(fs) ==
    \E i, j \in DOMAIN fs : i < j /\ fs[i].has_default /\ ~fs[j].has_default

Wrap ==
    /\ status = "declared"
    /\ IF FieldsLoopRaises(shape) \/ DataclassRaises(DataclassFields(shape))
       THEN /\ status' = "TypeError"
            /\ UNCHANGED <<_ydb_fields, _ydb_schema, dc_fields>>
       ELSE /\ status' = "bound"
            /\ _ydb_fields' = BindFields(shape)
            /\ _ydb_schema' = NoneV
            /\ dc_fields' = DataclassFields(shape)
    /\ UNCHANGED <<call, ret, shape, mcall, mret, pc, seen, local, returned>>

----------------------------------------------------------------------------
(* decorator.py: records, from_dict, from_ydb_row                          *)

\* cls(**kwargs) on the generated dataclass: TypeError for an unexpected keyword or
\* a missing field without default, else the instance's attributes
Construct(fs, kwargs) ==
    IF \/ \E i \in DOMAIN kwargs : \A j \in DOMAIN fs : fs[j].name # kwargs[i].key
       \/ \E j \in DOMAIN fs : ~fs[j].has_default /\ ~HasKey(kwargs, fs[j].name)
    THEN [outcome |-> "TypeError", fields |-> <<>>]
    ELSE [outcome |-> "record",
          fields |-> [j \in DOMAIN fs |->
                         [key |-> fs[j].name,
                          value |-> IF HasKey(kwargs, fs[j].name)
                                    THEN Get(kwargs, fs[j].name)
                                    ELSE fs[j].default]]]

\* the loop of from_dict over the fields from position i on
RECURSIVE FromDictKwargs(_, _, _, _)
FromDictKwargs(fields, data, kwargs, i) ==
    IF i > Len(fields) THEN [raised |-> FALSE, kwargs |-> kwargs]
    ELSE IF HasKey(data, fields[i].name)
    THEN FromDictKwargs(fields, data,
                        DictSet(kwargs, fields[i].name, Get(data, fields[i].name)), i + 1)
    ELSE IF fields[i].default # Ellipsis
    THEN FromDictKwargs(fields, data,
                        DictSet(kwargs, fields[i].name, fields[i].default), i + 1)
    ELSE [raised |-> TRUE, kwargs |-> kwargs]

from_dict(fields, fs, data) ==
    LET r == FromDictKwargs(fields, data, <<>>, 1)
    IN IF r.raised THEN [outcome |-> "ValueError", fields |-> <<>>]
       ELSE Construct(fs, r.kwargs)

\* A raw column value: whether it is None, an instance of ydb.Null, or has an
\* is_null() that returns True; the value attributes it has (present), the one
\* among them that carries the value (populated, "" when none does) and the value
\* carried (payload).  A plain Python value has no value attribute and is its payload.
RawValue(null, present, populated, payload) ==
    [null |-> null, present |-> present, populated |-> populated, payload |-> payload]

\* the order of the hasattr tests of lines 175-194
RepOrder ==
    <<"int_value", "uint_value", "utf8_value", "bytes_value", "double_value",
      "bool_value", "uint64_value", "int64_value", "microseconds", "text">>

\* what an attribute that carries no value reads as: the zero of its type
ZeroOf(rep) ==
    IF rep \in {"utf8_value", "bytes_value", "text"} THEN StrV("") ELSE Scalar(0)

\* getattr(raw_value, rep) for an attribute the value has
RepValue(raw, rep) == IF raw.populated = rep THEN raw.payload ELSE ZeroOf(rep)

\* lines 169-196: the native value taken for a raw value
ConvertRaw(raw) ==
    IF raw.null \in {"None", "is_null", "Null"} THEN NoneV
    ELSE IF \E i \in DOMAIN RepOrder : RepOrder[i] \in raw.present
    THEN RepValue(raw, RepOrder[CHOOSE i \in DOMAIN RepOrder :
                                    /\ RepOrder[i] \in raw.present
                                    /\ \A j \in 1..(i - 1) : RepOrder[j] \notin raw.present])
    ELSE raw.payload

\* A row: how it gives access to its values and the values it supplies.
\*   "attr"   attributes, no __getitem__
\*   "key"    __getitem__ by name, KeyError for a missing name
\*   "index"  __getitem__ by position (a list or tuple): TypeError for a name
\*   "bare"   neither
\* lines 158-166: whether a raw value is obtained for name
RowSupplies(row, name) ==
    \/ row.access = "attr" /\ HasKey(row.items, name)
    \/ row.access = "key" /\ HasKey(row.items, name)

\* the loop of from_ydb_row over the fields from position i on
RECURSIVE FromRowKwargs(_, _, _, _)
FromRowKwargs(fields, row, kwargs, i) ==
    IF i > Len(fields) THEN kwargs
    ELSE IF RowSupplies(row, fields[i].name)
    THEN FromRowKwargs(fields, row,
                       DictSet(kwargs, fields[i].name,
                               ConvertRaw(Get(row.items, fields[i].name))), i + 1)
    ELSE FromRowKwargs(fields, row, kwargs, i + 1)

from_ydb_row(fields, fs, row) == Construct(fs, FromRowKwargs(fields, row, <<>>, 1))

----------------------------------------------------------------------------
(* decorator.py: get_ydb_schema                                            *)

\* the mapping name -> field.python_type, the native type in place of the store type
ComputeSchema_PythonType(fields) ==
    DictV([i \in DOMAIN fields |->
               [key |-> fields[i].name, value |-> StrV(fields[i].python_type)]])

\* lines 135-138: {name: field.ydb_type.ydb_type for name, field in _ydb_fields.items()}
ComputeSchema(fields) ==
    DictV([i \in DOMAIN fields |->
               [key |-> fields[i].name, value |-> StrV(fields[i].ydb_type.ydb_type)]])

\* line 139: cls._ydb_schema.copy()
CopyOf(schema) == DictV(schema.items)

Threads == 1..NThreads

\* line 134: the test of cls._ydb_schema
SchemaCheck(t) ==
    /\ status = "bound"
    /\ pc[t] = "idle"
    /\ seen' = [seen EXCEPT ![t] = _ydb_schema]
    /\ pc' = [pc EXCEPT ![t] = IF _ydb_schema = NoneV THEN "compute" ELSE "return"]
    /\ UNCHANGED <<call, ret, shape, status, _ydb_fields, _ydb_schema, dc_fields,
                   mcall, mret, local, returned>>

\* lines 135-138, right-hand side: the mapping is built
SchemaCompute(t) ==
    /\ pc[t] = "compute"
    /\ local' = [local EXCEPT ![t] = ComputeSchema(_ydb_fields)]
    /\ pc' = [pc EXCEPT ![t] = "store"]
    /\ UNCHANGED <<call, ret, shape, status, _ydb_fields, _ydb_schema, dc_fields,
                   mcall, mret, seen, returned>>

\* line 135, assignment: cls._ydb_schema = <the mapping built>
SchemaStore(t) ==
    /\ pc[t] = "store"
    /\ _ydb_schema' = local[t]
    /\ pc' = [pc EXCEPT ![t] = "return"]
    /\ UNCHANGED <<call, ret, shape, status, _ydb_fields, dc_fields,
                   mcall, mret, seen, local, returned>>

\* line 139: the attribute is read again and copied
SchemaReturn(t) ==
    /\ pc[t] = "return"
    /\ returned' = [returned EXCEPT ![t] = CopyOf(_ydb_schema)]
    /\ pc' = [pc EXCEPT ![t] = "done"]
    /\ UNCHANGED <<call, ret, shape, status, _ydb_fields, _ydb_schema, dc_fields,
                   mcall, mret, seen, local>>

----------------------------------------------------------------------------
(* Inputs of the binder and of the record transformer                      *)

AttrNames == {"id", "name"}

Annotations ==
    {TypeClass("int64"), OptionalAlias(TypeClass("utf8")),
     PlainClass("int"), OptionalAlias(PlainClass("int"))}

\* an attribute without class-level default, with default None, with default 1
AttributesNamed(name) ==
    {Attribute(name, ann, FALSE, NoneV) : ann \in Annotations}
        \cup {Attribute(name, ann, TRUE, d) : ann \in Annotations, d \in {NoneV, Scalar(1)}}

RECURSIVE AttrsOver(_)
AttrsOver(names) ==
    IF Len(names) = 0 THEN {<<>>}
    ELSE {<<a>> \o rest : a \in AttributesNamed(Head(names)),
                          rest \in AttrsOver(Tail(names))}

Shapes ==
    {[dataclass |-> d, attrs |-> as] :
        d \in {"none", "empty", "fields"},
        as \in UNION {AttrsOver(names) : names \in DistinctSeqs(AttrNames, MaxFields)}}

\* the mappings handed to from_dict: id and name, each supplied or not
DataMaps ==
    {<<>>, <<[key |-> "id", value |-> Scalar(7)]>>,
     <<[key |-> "name", value |-> StrV("y")]>>,
     <<[key |-> "id", value |-> Scalar(7)], [key |-> "name", value |-> StrV("y")]>>}

AllReps == {RepOrder[i] : i \in DOMAIN RepOrder}

RawNone == RawValue("None", {}, "", NoneV)
RawNull == RawValue("Null", {}, "", NoneV)
RawIsNull == RawValue("is_null", AllReps, "", NoneV)
\* a wrapper with the single attribute int_value = 5
RawInt == RawValue("no", {"int_value"}, "int_value", Scalar(5))
\* a wrapper with every value attribute, of which utf8_value = "x" carries the value
RawText == RawValue("no", AllReps, "utf8_value", StrV("x"))
\* a value with the single attribute microseconds = 9
RawMicros == RawValue("no", {"microseconds"}, "microseconds", Scalar(9))
\* the plain Python value 7
RawPlain == RawValue("no", {}, "", Scalar(7))

RowItems ==
    {ids \o names :
        ids \in {<<>>} \cup {<<[key |-> "id", value |-> r]>> :
                     r \in {RawNone, RawNull, RawIsNull, RawInt, RawText, RawMicros, RawPlain}},
        names \in {<<>>} \cup {<<[key |-> "name", value |-> r]>> : r \in {RawNone, RawText}}}

Rows ==
    {[access |-> a, items |-> it] : a \in {"attr", "key"}, it \in RowItems}
        \cup {[access |-> a, items |-> <<>>] : a \in {"index", "bare"}}

----------------------------------------------------------------------------
(* The binder and the record transformer: a class is declared, decorated,  *)
(* and one of its classmethods is called                                   *)

FromDict ==
    /\ status = "bound"
    /\ mcall.fn = "none"
    /\ \E data \in DataMaps :
        /\ mcall' = [NoMethodCall EXCEPT !.fn = "from_dict", !.data = data]
        /\ mret' = from_dict(_ydb_fields, dc_fields, data)
    /\ UNCHANGED <<call, ret, shape, status, _ydb_fields, _ydb_schema, dc_fields,
                   pc, seen, local, returned>>

FromYdbRow ==
    /\ status = "bound"
    /\ mcall.fn = "none"
    /\ \E row \in Rows :
        /\ mcall' = [NoMethodCall EXCEPT !.fn = "from_ydb_row", !.row = row]
        /\ mret' = from_ydb_row(_ydb_fields, dc_fields, row)
    /\ UNCHANGED <<call, ret, shape, status, _ydb_fields, _ydb_schema, dc_fields,
                   pc, seen, local, returned>>

NoThreads ==
    /\ pc = <<>>
    /\ seen = <<>>
    /\ local = <<>>
    /\ returned = <<>>

InitClass ==
    /\ call = NoCall
    /\ ret = Pending
    /\ shape \in Shapes
    /\ status = "declared"
    /\ _ydb_fields = <<>>
    /\ _ydb_schema = NoneV
    /\ dc_fields = <<>>
    /\ mcall = NoMethodCall
    /\ mret = Pending
    /\ NoThreads

NextClass ==
    \/ Wrap
    \/ FromDict
    \/ FromYdbRow

SpecClass == InitClass /\ [][NextClass]_vars

----------------------------------------------------------------------------
(* get_ydb_schema called from NThreads threads on one bound class          *)

\* the values of cls._ydb_fields (Dict[str, YDBFieldInfo], line 127): the empty
\* mapping that wrap assigns, and mappings of fields over the namespace's types
FieldTypes == {TypeInstance("int64"), OptionalInstance(TypeInstance("utf8"))}

RECURSIVE FieldInfosOver(_)
FieldInfosOver(names) ==
    IF Len(names) = 0 THEN {<<>>}
    ELSE {<<YDBFieldInfo(Head(names), ty, Ellipsis)>> \o rest :
              ty \in FieldTypes, rest \in FieldInfosOver(Tail(names))}

BindingSets == UNION {FieldInfosOver(names) : names \in DistinctSeqs(AttrNames, MaxFields)}

InitSchema ==
    /\ call = NoCall
    /\ ret = Pending
    /\ shape = <<>>
    /\ status = "bound"
    /\ _ydb_fields \in BindingSets
    /\ _ydb_schema = NoneV
    /\ dc_fields = <<>>
    /\ mcall = NoMethodCall
    /\ mret = Pending
    /\ pc = [t \in Threads |-> "idle"]
    /\ seen = [t \in Threads |-> Pending]
    /\ local = [t \in Threads |-> Pending]
    /\ returned = [t \in Threads |-> Pending]

NextSchema ==
    \E t \in Threads :
        \/ SchemaCheck(t)
        \/ SchemaCompute(t)
        \/ SchemaStore(t)
        \/ SchemaReturn(t)

SpecSchema == InitSchema /\ [][NextSchema]_vars

----------------------------------------------------------------------------
(* Reading statement text back: used to state the properties               *)

\* the first index >= i at which sub occurs in s, 0 when there is none
RECURSIVE FindFrom(_, _, _)
FindFrom(s, sub, i) ==
    IF i + Len(sub) - 1 > Len(s) THEN 0
    ELSE IF StartsAt(s, sub, i) THEN i
    ELSE FindFrom(s, sub, i + 1)

Find(s, sub) == FindFrom(s, sub, 1)

Contains(s, sub) == Find(s, sub) > 0

\* the pieces of s between the occurrences of sep (one piece when there is none)
RECURSIVE SplitOn(_, _)
SplitOn(s, sep) ==
    LET at == Find(s, sep)
    IN IF at = 0 THEN <<s>>
       ELSE <<SubSeq(s, 1, at - 1)>> \o SplitOn(SubSeq(s, at + Len(sep), Len(s)), sep)

IdentChars == "abcdefghijklmnopqrstuvwxyzABCDEFGHIJKLMNOPQRSTUVWXYZ0123456789_"

IsIdentChar(c) == \E j \in 1..Len(IdentChars) : SubSeq(IdentChars, j, j) = c

\* the last index of the run of identifier characters starting at i (i - 1 when empty)
RECURSIVE IdentEnd(_, _)
IdentEnd(s, i) ==
    IF i <= Len(s) /\ IsIdentChar(SubSeq(s, i, i)) THEN IdentEnd(s, i + 1) ELSE i - 1

\* the names of the $-placeholders of a statement, in order of appearance
RECURSIVE PlaceholdersFrom(_, _)
PlaceholdersFrom(s, i) ==
    IF i > Len(s) THEN <<>>
    ELSE IF SubSeq(s, i, i) = "$"
    THEN LET e == IdentEnd(s, i + 1)
         IN <<SubSeq(s, i + 1, e)>> \o PlaceholdersFrom(s, e + 1)
    ELSE PlaceholdersFrom(s, i + 1)

PlaceholderNames(s) == PlaceholdersFrom(s, 1)

Returned(fn) == call.fn = fn /\ ret # Pending

----------------------------------------------------------------------------
(* C1: generate_where_clause emits one clause per condition, in input      *)
(* order, joined by " AND ": "<field> IS NULL" for a None value,           *)
(* "<field> IN ($<field>_0, ..., $<field>_{n-1})" with exactly n indexed   *)
(* placeholders for a list or tuple of n elements, "<field> = $<field>"    *)
(* for any other value.                                                    *)

C1_Clauses(text) == IF text = "" THEN <<>> ELSE SplitOn(text, " AND ")

C1_ClauseOk(clause, field, value) ==
    CASE value.kind = "None" ->
            /\ clause = field \o " IS NULL"
            /\ PlaceholderNames(clause) = <<>>
      [] value.kind \in {"list", "tuple"} ->
            /\ StartsAt(clause, field \o " IN (", 1)
            /\ SubSeq(clause, Len(clause), Len(clause)) = ")"
            /\ PlaceholderNames(clause)
                   = [i \in 1..Len(value.items) |-> field \o "_" \o IntToStr(i - 1)]
            /\ SplitOn(SubSeq(clause, Len(field) + 6, Len(clause) - 1), ", ")
                   = IF Len(value.items) = 0 THEN <<"">>
                     ELSE [i \in 1..Len(value.items) |->
                               "$" \o field \o "_" \o IntToStr(i - 1)]
      [] OTHER ->
            /\ clause = field \o " = $" \o field

C1_WhereClausePerCondition ==
    Returned("generate_where_clause") =>
        LET conds == call.where.items
            clauses == C1_Clauses(ret.s)
        IN /\ Len(clauses) = Len(conds)
           /\ \A i \in DOMAIN conds :
                  C1_ClauseOk(clauses[i], conds[i].key, conds[i].value)

\* a None condition, then a two-element tuple condition, has been translated
C1_Witness ==
    /\ Returned("generate_where_clause")
    /\ Len(call.where.items) = 2
    /\ call.where.items[1].value.kind = "None"
    /\ call.where.items[2].value.kind = "tuple"
    /\ Len(call.where.items[2].value.items) = 2

----------------------------------------------------------------------------
(* C2: insert_query with on_conflict="REPLACE" returns the plain insert    *)
(* with only the statement verb changed to REPLACE (table identifier,      *)
(* column list and placeholder list as in the plain insert, also when the  *)
(* table or a column name contains the text INSERT); on_conflict="UPDATE"  *)
(* returns what upsert_query returns; None or any other value returns the  *)
(* plain INSERT statement.                                                 *)

\* "<verb> INTO '<table>' (<columns>) VALUES (<placeholders>)"
C2_Statement(verb, table_name, names) ==
    verb \o " INTO " \o BQ \o table_name \o BQ \o " (" \o Join(names, ", ")
        \o ") VALUES (" \o Join([i \in DOMAIN names |-> "$" \o names[i]], ", ") \o ")"

C2_InsertConflictVerb ==
    Returned("insert_query") =>
        LET names == FieldNames(call.ydb_fields.items)
            oc == call.on_conflict
        IN IF oc.kind = "str" /\ oc.s = "REPLACE"
           THEN ret.s = C2_Statement("REPLACE", call.table_name, names)
           ELSE IF oc.kind = "str" /\ oc.s = "UPDATE"
           THEN ret.s = upsert_query(call.table_name, call.ydb_fields.items)
           ELSE ret.s = C2_Statement("INSERT", call.table_name, names)

----------------------------------------------------------------------------
(* C3: select_query emits columns, table, WHERE, ORDER BY, LIMIT, OFFSET   *)
(* in this order; WHERE iff where is non-empty, LIMIT iff limit is not     *)
(* None (also for limit = 0), OFFSET only together with LIMIT (never when  *)
(* limit is None) and then iff offset is not None.                         *)

C3_PartsInOrder(text) ==
    LET from == Find(text, " FROM ")
        where == Find(text, " WHERE ")
        order == Find(text, " ORDER BY ")
        limit == Find(text, " LIMIT ")
        offset == Find(text, " OFFSET ")
        \* the positions of the parts present, in the order the claim lists them
        present == SelectSeq(<<from, where, order, limit, offset>>, LAMBDA x : x > 0)
    IN /\ StartsAt(text, "SELECT ", 1)
       /\ from > 0
       /\ \A i \in 1..(Len(present) - 1) : present[i] < present[i + 1]

C3_Common ==
    /\ C3_PartsInOrder(ret.s)
    /\ Contains(ret.s, " WHERE ") <=> Truthy(call.where)
    /\ Contains(ret.s, " LIMIT ") <=> call.limit.kind # "None"
    /\ Contains(ret.s, " OFFSET ") => Contains(ret.s, " LIMIT ")
    /\ call.limit.kind = "None" => ~Contains(ret.s, " OFFSET ")
    /\ call.limit.kind # "None" =>
           (Contains(ret.s, " OFFSET ") <=> call.offset.kind # "None")
    /\ call.limit.kind # "None" =>
           Contains(ret.s, " LIMIT " \o IntToStr(call.limit.v))

\* C3 as claimed: ORDER BY appears iff order_by is given (is not None)
C3_SelectClauseOrder_Original ==
    Returned("select_query") =>
        /\ C3_Common
        /\ Contains(ret.s, " ORDER BY ") <=> call.order_by.kind # "None"

\* C3 as amended: ORDER BY appears iff order_by is a non-empty list
C3_SelectClauseOrder ==
    Returned("select_query") =>
        /\ C3_Common
        /\ Contains(ret.s, " ORDER BY ") <=> Truthy(call.order_by)

\* a select with where, order_by, limit = 0 and an offset has been built, and one
\* with an offset but no limit
C3_Witness ==
    /\ Returned("select_query")
    /\ Truthy(call.where) /\ Truthy(call.order_by)
    /\ call.limit = Scalar(0) /\ call.offset = Scalar(5)
    /\ Contains(ret.s, " LIMIT 0 OFFSET 5")

----------------------------------------------------------------------------
(* C4: the SET clause of update_query holds exactly the names of           *)
(* update_fields that are BindingSet field names when update_fields is     *)
(* given (also when it is an empty list, or names no BindingSet field),    *)
(* and all BindingSet fields when it is not given; every assignment reads  *)
(* "<field> = $<field>".                                                   *)

\* the text of the SET clause: after " SET ", up to " WHERE " or the end
C4_SetClause(text) ==
    LET at == Find(text, " SET ")
        rest == SubSeq(text, at + 5, Len(text))
        wh == Find(rest, " WHERE ")
    IN IF wh = 0 THEN rest ELSE SubSeq(rest, 1, wh - 1)

C4_Assignments(text) ==
    IF C4_SetClause(text) = "" THEN <<>> ELSE SplitOn(C4_SetClause(text), ", ")

\* the field an assignment "<field> = $<field>" assigns
C4_AssignedField(assignment) == SubSeq(assignment, 1, Find(assignment, " = $") - 1)

C4_UpdateSetClause ==
    Returned("update_query") =>
        LET all_fields == Range(FieldNames(call.ydb_fields.items))
            assignments == C4_Assignments(ret.s)
            assigned == {C4_AssignedField(assignments[i]) : i \in DOMAIN assignments}
        IN /\ \A i \in DOMAIN assignments :
                  /\ Contains(assignments[i], " = $")
                  /\ assignments[i] = C4_AssignedField(assignments[i]) \o " = $"
                                          \o C4_AssignedField(assignments[i])
           /\ assigned = IF call.update_fields.kind # "None"
                         THEN Range(call.update_fields.items) \cap all_fields
                         ELSE all_fields

----------------------------------------------------------------------------
(* C5: the parameter names prepare_params produces for where are exactly   *)
(* the placeholder names of generate_where_clause(where): a scalar value   *)
(* gives "<field>", element i of a list or tuple gives "<field>_<i>", a    *)
(* None value gives neither a placeholder nor a parameter.                 *)

C5_ParamsMatchPlaceholders ==
    (Returned("prepare_params") /\ call.data = DictV(<<>>) /\ call.where.kind = "dict") =>
        Range(Keys(ret.items))
            = Range(PlaceholderNames(generate_where_clause(call.where.items)))

----------------------------------------------------------------------------
(* Reading a declaration and a record back                                 *)

\* the type registry: the classes types.py nests in the namespace
IsRegistered(annotation) ==
    \E cls \in BaseTypeNames : annotation.id = "YDBMeta." \o cls

IsOptionalOfRegistered(annotation) ==
    /\ annotation.origin = "Union"
    /\ Len(annotation.args) = 2
    /\ annotation.args[2] = NoneType
    /\ IsRegistered(annotation.args[1])

\* the declared attributes the type registry resolves, in declaration order
DeclaredBinding(cls) ==
    SelectSeq(cls.attrs, LAMBDA a : IsRegistered(a.annotation)
                                        \/ IsOptionalOfRegistered(a.annotation))

\* the store-type name the type registry gives a resolved annotation
DeclaredStoreType(annotation) ==
    IF IsRegistered(annotation)
    THEN StoreTypeOf(CHOOSE cls \in BaseTypeNames : annotation.id = "YDBMeta." \o cls)
    ELSE "Optional<" \o StoreTypeOf(CHOOSE cls \in BaseTypeNames :
                                        annotation.args[1].id = "YDBMeta." \o cls) \o ">"

NoAttribute == [kind |-> "AttributeError", v |-> 0, s |-> "", items |-> <<>>]

\* record.<name>: the instance attribute, else the class attribute, else AttributeError
Holds(record, cls, name) ==
    IF HasKey(record.fields, name) THEN Get(record.fields, name)
    ELSE IF \E i \in DOMAIN cls.attrs : cls.attrs[i].name = name /\ cls.attrs[i].has_default
    THEN cls.attrs[CHOOSE i \in DOMAIN cls.attrs : cls.attrs[i].name = name].default
    ELSE NoAttribute

Called(fn) == status = "bound" /\ mcall.fn = fn

----------------------------------------------------------------------------
(* C6: from_dict raises the missing-field error (ValueError) if and only   *)
(* if some field of the BindingSet without class-level default is absent   *)
(* from the mapping; otherwise it constructs the record, with the supplied *)
(* value for each field present in the mapping and the declared default    *)
(* for each field absent from it.                                          *)

C6_MissingField(binding, data) ==
    \E i \in DOMAIN binding : ~binding[i].has_default /\ ~HasKey(data, binding[i].name)

C6_FromDictRaisesIffMissing ==
    Called("from_dict") =>
        LET binding == DeclaredBinding(shape)
        IN IF C6_MissingField(binding, mcall.data)
           THEN mret.outcome = "ValueError"
           ELSE /\ mret.outcome = "record"
                /\ \A i \in DOMAIN binding :
                       Holds(mret, shape, binding[i].name)
                           = IF HasKey(mcall.data, binding[i].name)
                             THEN Get(mcall.data, binding[i].name)
                             ELSE binding[i].default

----------------------------------------------------------------------------
(* C7: for a row with attribute or key access that does not supply an      *)
(* optional-typed field of the BindingSet, from_ydb_row does not raise,    *)
(* and the record holds the field's default, or None when it has none.     *)

C7_FromRowMissingOptional ==
    (Called("from_ydb_row") /\ mcall.row.access \in {"attr", "key"}) =>
        LET binding == DeclaredBinding(shape)
        IN \A i \in DOMAIN binding :
               (IsOptionalOfRegistered(binding[i].annotation)
                    /\ ~HasKey(mcall.row.items, binding[i].name)) =>
                   /\ mret.outcome = "record"
                   /\ Holds(mret, shape, binding[i].name)
                          = IF binding[i].has_default THEN binding[i].default ELSE NoneV

----------------------------------------------------------------------------
(* C8: after binding, the BindingSet (_ydb_fields) holds, in declaration   *)
(* order, exactly the declared attributes whose type is a registered base  *)
(* type or an optional wrapper around one registered base type, each with  *)
(* the store type of its declaration; every other attribute is left out.   *)

C8_BindingSetContents ==
    status = "bound" =>
        LET binding == DeclaredBinding(shape)
        IN /\ FieldNames(_ydb_fields) = FieldNames(binding)
           /\ \A i \in DOMAIN binding :
                  i \in DOMAIN _ydb_fields =>
                      _ydb_fields[i].ydb_type.ydb_type
                          = DeclaredStoreType(binding[i].annotation)

----------------------------------------------------------------------------
(* C9: in every interleaving of get_ydb_schema calls on one bound class,   *)
(* starting from an empty cache, every call returns the mapping field name *)
(* -> store-type name of the BindingSet in BindingSet order, and a cache   *)
(* that holds a mapping never holds another value afterwards.              *)

C9_Expected ==
    DictV([i \in DOMAIN _ydb_fields |->
               [key |-> _ydb_fields[i].name,
                value |-> StrV(IF _ydb_fields[i].ydb_type.cls = "Optional"
                               THEN "Optional<"
                                        \o StoreTypeOf(_ydb_fields[i].ydb_type.inner_type.cls)
                                        \o ">"
                               ELSE StoreTypeOf(_ydb_fields[i].ydb_type.cls))]])

C9_Returns ==
    /\ _ydb_schema \in {NoneV, C9_Expected}
    /\ \A t \in DOMAIN returned : returned[t] \in {Pending, C9_Expected}

C9_CacheStable == _ydb_schema # NoneV => _ydb_schema' = _ydb_schema

C9_ConcurrentSchema == []C9_Returns /\ [][C9_CacheStable]_vars

\* every thread found the cache empty, computed, stored, and returned
C9_Witness ==
    /\ Len(_ydb_fields) >= 2
    /\ \E i \in DOMAIN _ydb_fields : _ydb_fields[i].ydb_type.cls = "Optional"
    /\ \A t \in Threads :
           /\ pc[t] = "done"
           /\ seen[t] = NoneV
           /\ local[t] = C9_Expected
           /\ returned[t] = C9_Expected

----------------------------------------------------------------------------
(* C10: for a non-null raw value that a row supplies for a field of the    *)
(* BindingSet, from_ydb_row takes the value of the first populated         *)
(* representation in the fixed order; a representation that is present but *)
(* not populated does not win; a value without any representation is       *)
(* passed through unconverted.                                             *)

\* the raw values of RowItems carry their value in at most one representation
C10_Native(raw) == raw.payload

C10_FirstPopulatedWins ==
    (Called("from_ydb_row") /\ mcall.row.access \in {"attr", "key"}) =>
        LET binding == DeclaredBinding(shape)
        IN \A i \in DOMAIN binding :
               (HasKey(mcall.row.items, binding[i].name)
                    /\ Get(mcall.row.items, binding[i].name).null = "no") =>
                   (mret.outcome = "record" =>
                        Holds(mret, shape, binding[i].name)
                            = C10_Native(Get(mcall.row.items, binding[i].name)))

----------------------------------------------------------------------------
(* C11: for a single data mapping and any where mapping, the parameters    *)
(* prepare_params(data, where) returns bind every data key k to data[k]:   *)
(* no where condition, scalar on the same name or list/tuple element whose *)
(* indexed name "<field>_<i>" equals a data key, replaces a data value.    *)

C11_DataParamsKept ==
    (Returned("prepare_params") /\ call.data.kind = "dict") =>
        \A i \in DOMAIN call.data.items :
            /\ HasKey(ret.items, call.data.items[i].key)
            /\ Get(ret.items, call.data.items[i].key) = call.data.items[i].value

====
